---- MODULE Spec2Model ----
(***************************************************************************)
(* Model of the FIX codec of fix_engine: FixField (field.rs), the tag      *)
(* constants (tags.rs), the error kinds (error.rs) and FixMessage with its *)
(* add_field / get_field / encode / decode (message.rs).                   *)
(*                                                                         *)
(* A byte is a natural number 0..255, a buffer is a sequence of bytes.     *)
(* Positions are 0-based as in the source; Slice(s, a, b) is s[a..b].      *)
(***************************************************************************)
EXTENDS Integers, Sequences, FiniteSets, TLC

VARIABLES
    fields,       \* FixMessage.fields of the message under construction
    field_order,  \* FixMessage.field_order of the message under construction
    calls,        \* history: the <<tag, value>> of every add_field call, in call order
    encoded,      \* result of encode on the message
    data,         \* the buffer that is handed to decode
    flip,         \* history: the single byte replaced in data after encode
    npieces,      \* history: number of chunks a received buffer was put together from
    decoded,      \* result of decode on data
    pc            \* "build", "ready" (data may be decoded), "failed", "decoded"

vars == <<fields, field_order, calls, encoded, data, flip, npieces, decoded, pc>>

----------------------------------------------------------------------------
(* field.rs / tags.rs / message.rs constants *)

SOH == 1
EQUALS == 61
BEGIN_STRING_TAG == 8
BODY_LENGTH_TAG == 9
MSG_TYPE_TAG == 35
CHECKSUM_TAG == 10

(* ASCII codes used by the decimal conversions *)
Zero == 48
Plus == 43
\* u32::MAX is 4294967295 = U32MaxDiv10 * 10 + U32MaxMod10
U32MaxDiv10 == 429496729
U32MaxMod10 == 5

----------------------------------------------------------------------------
(* bounds of the model *)

MaxFields == 4
MaxPieces == 5
MaxFlipFields == 3
MaxTailPieces == 4

----------------------------------------------------------------------------
(* byte-sequence helpers *)

\* s[a..b] of the source: bytes at 0-based positions a .. b-1
Slice(s, a, b) == SubSeq(s, a + 1, b)

\* s[a..]
SliceFrom(s, a) == SubSeq(s, a + 1, Len(s))

RECURSIVE SumBytes(_)
\* iter().map(|&b| b as u32).sum::<u32>(); a u32 sum of bytes cannot overflow
\* on a buffer of less than 2^24 bytes
SumBytes(s) == IF s = <<>> THEN 0 ELSE SumBytes(Tail(s)) + Head(s)

RECURSIVE MemChrFrom(_, _, _)
MemChrFrom(b, s, i) == IF i > Len(s) THEN -1
                       ELSE IF s[i] = b THEN i - 1
                       ELSE MemChrFrom(b, s, i + 1)

\* memchr(b, s): 0-based index of the first byte b in s, -1 for None
MemChr(b, s) == MemChrFrom(b, s, 1)

RECURSIVE Digits(_)
\* itoa / to_string of an unsigned integer: plain decimal, no leading zeros
Digits(n) == IF n < 10 THEN <<Zero + n>>
             ELSE Append(Digits(n \div 10), Zero + (n % 10))

RECURSIVE PadLeft(_, _)
PadLeft(s, w) == IF Len(s) >= w THEN s ELSE PadLeft(<<Zero>> \o s, w)

\* format!("{:03}", n): decimal, zero-padded to a minimum width of 3
Format03(n) == PadLeft(Digits(n), 3)

IsDigit(b) == b >= Zero /\ b <= Zero + 9

RECURSIVE ParseDigits(_, _)
\* accumulates the digits of s onto acc; -1 on a non-digit or on u32 overflow
ParseDigits(s, acc) ==
    IF s = <<>> THEN acc
    ELSE IF ~IsDigit(Head(s)) THEN -1
    ELSE LET d == Head(s) - Zero
         IN  IF acc > U32MaxDiv10 \/ (acc = U32MaxDiv10 /\ d > U32MaxMod10) THEN -1
             ELSE ParseDigits(Tail(s), acc * 10 + d)

\* str::parse::<u32>() on the bytes of s: -1 for Err. An empty string, a lone
\* sign, a non-digit and an overflow are errors; one leading '+' is accepted.
\* The bytes reach parse through from_utf8_unchecked; u32::from_str reads them
\* bytewise, so bytes outside ASCII are rejected as non-digits.
ParseU32(s) ==
    IF s = <<>> THEN -1
    ELSE IF Head(s) = Plus THEN (IF Tail(s) = <<>> THEN -1 ELSE ParseDigits(Tail(s), 0))
    ELSE ParseDigits(s, 0)

----------------------------------------------------------------------------
(* FixField *)

\* FixField::encode: tag in decimal, '=', the raw value, SOH
FieldEncode(tag, value) == Digits(tag) \o <<EQUALS>> \o value \o <<SOH>>

\* FixField::encoded_len
EncodedLen(tag, value) == Len(Digits(tag)) + 1 + Len(value) + 1

----------------------------------------------------------------------------
(* FixMessage: a record [fields |-> function tag -> value, order |-> Seq(tag)] *)

\* FixMessage::new / with_capacity
NewMessage == [fields |-> <<>>, order |-> <<>>]

\* FxHashMap::insert
MapInsert(f, tag, value) ==
    [t \in (DOMAIN f) \cup {tag} |-> IF t = tag THEN value ELSE f[t]]

\* add_field that records a tag in the order only the first time it is inserted
AddFieldTo_FirstOnly(m, tag, value) ==
    [fields |-> MapInsert(m.fields, tag, value),
     order |-> IF tag \in DOMAIN m.fields THEN m.order ELSE Append(m.order, tag)]

\* FixMessage::add_field
AddFieldTo(m, tag, value) ==
    [fields |-> MapInsert(m.fields, tag, value), order |-> Append(m.order, tag)]

\* FixMessage::get_field: is there a field for the tag
HasField(m, tag) == tag \in DOMAIN m.fields

\* FixMessage::get_field: the value of the field (when there is one)
GetField(m, tag) == m.fields[tag]

\* FixMessage::len
MsgLen(m) == Cardinality(DOMAIN m.fields)

\* FixMessage::is_empty
MsgIsEmpty(m) == DOMAIN m.fields = {}

\* FixMessage::field_tags
FieldTags(m) == m.order

----------------------------------------------------------------------------
(* results: [kind, tag, ...]; kind is "Ok" or the FixError variant *)

ErrInvalidFormat == [kind |-> "InvalidFormat", tag |-> 0]
ErrInvalidChecksum == [kind |-> "InvalidChecksum", tag |-> 0]
ErrMissingField(t) == [kind |-> "MissingField", tag |-> t]

----------------------------------------------------------------------------
(* FixMessage::encode *)

RECURSIVE SizeLoop(_, _, _)
\* the loop of calculate_message_size over field_order, from entry k on
SizeLoop(m, k, size) ==
    IF k > Len(m.order) THEN [kind |-> "Ok", tag |-> 0, size |-> size]
    ELSE LET tag == m.order[k]
         IN  IF tag # BEGIN_STRING_TAG /\ tag # BODY_LENGTH_TAG
             THEN IF HasField(m, tag)
                  THEN SizeLoop(m, k + 1, size + EncodedLen(tag, GetField(m, tag)))
                  ELSE [kind |-> "MissingField", tag |-> tag, size |-> 0]
             ELSE SizeLoop(m, k + 1, size)

\* a size calculation that also asks for the body-length field
CalculateMessageSize_NeedsBodyLength(m) ==
    IF ~HasField(m, BEGIN_STRING_TAG)
    THEN [kind |-> "MissingField", tag |-> BEGIN_STRING_TAG, size |-> 0]
    ELSE IF ~HasField(m, BODY_LENGTH_TAG)
    THEN [kind |-> "MissingField", tag |-> BODY_LENGTH_TAG, size |-> 0]
    ELSE SizeLoop(m, 1, EncodedLen(BEGIN_STRING_TAG, GetField(m, BEGIN_STRING_TAG)) + 20)

\* FixMessage::calculate_message_size
CalculateMessageSize(m) ==
    IF HasField(m, BEGIN_STRING_TAG)
    THEN LET r == SizeLoop(m, 1,
                     EncodedLen(BEGIN_STRING_TAG, GetField(m, BEGIN_STRING_TAG)) + 2 + 10 + 1)
         IN  IF r.kind = "Ok" THEN [r EXCEPT !.size = r.size + 7] ELSE r
    ELSE [kind |-> "MissingField", tag |-> BEGIN_STRING_TAG, size |-> 0]

\* a body loop that does not pass over the checksum tag
IsReservedTag_KeepChecksum(tag) ==
    tag = BEGIN_STRING_TAG \/ tag = BODY_LENGTH_TAG \/ tag = MSG_TYPE_TAG

\* the tags the body loop of encode passes over
IsReservedTag(tag) ==
    tag = BEGIN_STRING_TAG \/ tag = BODY_LENGTH_TAG \/ tag = MSG_TYPE_TAG \/ tag = CHECKSUM_TAG

RECURSIVE BodyLoop_Prepend(_, _, _)
\* a body loop that puts every further field in front of the fields before it
BodyLoop_Prepend(m, k, body_buf) ==
    IF k > Len(m.order) THEN [kind |-> "Ok", tag |-> 0, buf |-> body_buf]
    ELSE LET tag == m.order[k]
         IN  IF ~IsReservedTag(tag) /\ HasField(m, tag)
             THEN BodyLoop_Prepend(m, k + 1,
                      SubSeq(body_buf, 1, EncodedLen(MSG_TYPE_TAG, GetField(m, MSG_TYPE_TAG)))
                          \o FieldEncode(tag, GetField(m, tag))
                          \o SubSeq(body_buf,
                                    EncodedLen(MSG_TYPE_TAG, GetField(m, MSG_TYPE_TAG)) + 1,
                                    Len(body_buf)))
             ELSE BodyLoop_Prepend(m, k + 1, body_buf)

RECURSIVE BodyLoop(_, _, _)
\* the loop of encode over field_order, from entry k on, appending to body_buf
BodyLoop(m, k, body_buf) ==
    IF k > Len(m.order) THEN [kind |-> "Ok", tag |-> 0, buf |-> body_buf]
    ELSE LET tag == m.order[k]
         IN  IF ~IsReservedTag(tag)
             THEN IF HasField(m, tag)
                  THEN BodyLoop(m, k + 1, body_buf \o FieldEncode(tag, GetField(m, tag)))
                  ELSE [kind |-> "MissingField", tag |-> tag, buf |-> <<>>]
             ELSE BodyLoop(m, k + 1, body_buf)

\* a body length that counts the checksum field too
BodyLength_WithChecksum(body_buf) == Len(body_buf) + 7

\* let body_length = body_buf.len()
BodyLength(body_buf) == Len(body_buf)

\* a checksum field written without the zero padding
ChecksumField_Unpadded(buf) ==
    <<Zero + 1, Zero, EQUALS>> \o Digits(SumBytes(buf) % 256) \o <<SOH>>

\* the checksum field that encode appends to buf
ChecksumField(buf) ==
    <<Zero + 1, Zero, EQUALS>> \o Format03(SumBytes(buf) % 256) \o <<SOH>>

\* FixMessage::encode
Encode(m) ==
    LET est == CalculateMessageSize(m)
    IN  IF est.kind # "Ok" THEN [kind |-> est.kind, tag |-> est.tag, buf |-> <<>>]
        ELSE IF ~HasField(m, BEGIN_STRING_TAG)
             THEN [kind |-> "MissingField", tag |-> BEGIN_STRING_TAG, buf |-> <<>>]
        ELSE IF ~HasField(m, MSG_TYPE_TAG)
             THEN [kind |-> "MissingField", tag |-> MSG_TYPE_TAG, buf |-> <<>>]
        ELSE LET head == FieldEncode(BEGIN_STRING_TAG, GetField(m, BEGIN_STRING_TAG))
                 body == BodyLoop(m, 1, FieldEncode(MSG_TYPE_TAG, GetField(m, MSG_TYPE_TAG)))
             IN  IF body.kind # "Ok" THEN body
                 ELSE LET buf == head \o <<Zero + 9, EQUALS>> \o Digits(BodyLength(body.buf))
                                      \o <<SOH>> \o body.buf
                      IN  [kind |-> "Ok", tag |-> 0, buf |-> buf \o ChecksumField(buf)]

----------------------------------------------------------------------------
(* FixMessage::decode *)

\* a decode result: the Message of Ok(message), and as history the scan
\* position and the number of fields stored when decode returned
DecodeResult(kind, tag, msg, pos, stored) ==
    [kind |-> kind, tag |-> tag, msg |-> msg, pos |-> pos, stored |-> stored]

DecodeErr(e, pos, m) == DecodeResult(e.kind, e.tag, NewMessage, pos, Len(m.order))

\* an out-of-range slice panics
DecodePanic(pos, m) == DecodeResult("Panic", 0, NewMessage, pos, Len(m.order))

\* a value slice that starts at the separator
FieldValue_FromSeparator(field_data, equals_pos) == SliceFrom(field_data, equals_pos)

\* &field_data[equals_pos + 1..]
FieldValue(field_data, equals_pos) == SliceFrom(field_data, equals_pos + 1)

\* a header check that accepts any tag
TagAccepted_Any(tag, expected_tag) == TRUE

\* if tag != expected_tag { return Err(InvalidFormat) }
TagAccepted(tag, expected_tag) == tag = expected_tag

\* extract_field that returns a position one byte behind the byte after the delimiter
ExtractField_OneTooFar(d, start_pos, expected_tag, m) ==
    IF start_pos > Len(d) THEN [kind |-> "Panic", pos |-> start_pos, msg |-> m]
    ELSE LET field_end == MemChr(SOH, SliceFrom(d, start_pos))
         IN  IF field_end = -1 THEN [kind |-> "InvalidFormat", pos |-> start_pos, msg |-> m]
             ELSE LET field_data == Slice(d, start_pos, start_pos + field_end)
                      equals_pos == MemChr(EQUALS, field_data)
                  IN  IF equals_pos = -1
                      THEN [kind |-> "InvalidFormat", pos |-> start_pos, msg |-> m]
                      ELSE LET tag == ParseU32(Slice(field_data, 0, equals_pos))
                           IN  IF tag = -1 \/ tag # expected_tag
                               THEN [kind |-> "InvalidFormat", pos |-> start_pos, msg |-> m]
                               ELSE [kind |-> "Ok", pos |-> start_pos + field_end + 2,
                                     msg |-> AddFieldTo(m, tag, FieldValue(field_data, equals_pos))]

\* FixMessage::extract_field: [kind, pos, msg]
ExtractField(d, start_pos, expected_tag, m) ==
    IF start_pos > Len(d) THEN [kind |-> "Panic", pos |-> start_pos, msg |-> m]
    ELSE LET field_end == MemChr(SOH, SliceFrom(d, start_pos))
         IN  IF field_end = -1 THEN [kind |-> "InvalidFormat", pos |-> start_pos, msg |-> m]
             ELSE LET field_data == Slice(d, start_pos, start_pos + field_end)
                      equals_pos == MemChr(EQUALS, field_data)
                  IN  IF equals_pos = -1
                      THEN [kind |-> "InvalidFormat", pos |-> start_pos, msg |-> m]
                      ELSE LET tag == ParseU32(Slice(field_data, 0, equals_pos))
                           IN  IF tag = -1 \/ ~TagAccepted(tag, expected_tag)
                               THEN [kind |-> "InvalidFormat", pos |-> start_pos, msg |-> m]
                               ELSE [kind |-> "Ok", pos |-> start_pos + field_end + 1,
                                     msg |-> AddFieldTo(m, tag, FieldValue(field_data, equals_pos))]

RECURSIVE ScanLoop(_, _, _)
\* the while loop of decode: [kind, pos, msg]
ScanLoop(d, pos, m) ==
    IF ~(pos < Len(d)) THEN [kind |-> "Ok", pos |-> pos, msg |-> m]
    ELSE LET field_end == MemChr(SOH, SliceFrom(d, pos))
         IN  IF field_end = -1 THEN [kind |-> "InvalidFormat", pos |-> pos, msg |-> m]
             ELSE LET field_data == Slice(d, pos, pos + field_end)
                      equals_pos == MemChr(EQUALS, field_data)
                  IN  IF equals_pos = -1 THEN ScanLoop(d, pos + field_end + 1, m)
                      ELSE LET tag == ParseU32(Slice(field_data, 0, equals_pos))
                           IN  IF tag = -1
                               THEN [kind |-> "InvalidFormat", pos |-> pos, msg |-> m]
                               ELSE ScanLoop(d, pos + field_end + 1,
                                        AddFieldTo(m, tag, FieldValue(field_data, equals_pos)))

\* a sum that leaves out one byte less
CalculatedChecksum_Final6(d) == SumBytes(Slice(d, 0, Len(d) - 6)) % 256

\* data[..data.len() - 7] summed modulo 256
CalculatedChecksum(d) == SumBytes(Slice(d, 0, Len(d) - 7)) % 256

\* a comparison that only rejects a sum above the received checksum
ChecksumMatches_AtMost(calculated, received) == calculated <= received

\* a comparison with the sense inverted
ChecksumMatches_Inverted(calculated, received) == calculated # received

\* if calculated_checksum != received_checksum { return Err(InvalidChecksum) }
ChecksumMatches(calculated, received) == calculated = received

\* a verification that also wants the body-length field to be a number
VerifyChecksum_WithBodyLength(d, pos, m) ==
    IF ParseU32(GetField(m, BODY_LENGTH_TAG)) = -1
    THEN DecodeErr([kind |-> "InvalidBodyLength", tag |-> 0], pos, m)
    ELSE IF HasField(m, CHECKSUM_TAG)
    THEN IF Len(d) < 7 THEN DecodePanic(pos, m)
         ELSE LET received == ParseU32(GetField(m, CHECKSUM_TAG))
              IN  IF received = -1 THEN DecodeErr(ErrInvalidFormat, pos, m)
                  ELSE IF ~ChecksumMatches(CalculatedChecksum(d), received)
                       THEN DecodeErr(ErrInvalidChecksum, pos, m)
                       ELSE DecodeResult("Ok", 0, m, pos, Len(m.order))
    ELSE DecodeErr(ErrMissingField(CHECKSUM_TAG), pos, m)

\* a verification that lets a message without checksum field pass
VerifyChecksum_Optional(d, pos, m) ==
    IF HasField(m, CHECKSUM_TAG)
    THEN LET received == ParseU32(GetField(m, CHECKSUM_TAG))
         IN  IF received = -1 THEN DecodeErr(ErrInvalidFormat, pos, m)
             ELSE IF Len(d) < 7 \/ ~ChecksumMatches(CalculatedChecksum(d), received)
                  THEN DecodeErr(ErrInvalidChecksum, pos, m)
                  ELSE DecodeResult("Ok", 0, m, pos, Len(m.order))
    ELSE DecodeResult("Ok", 0, m, pos, Len(m.order))

\* the checksum verification that ends decode
VerifyChecksum(d, pos, m) ==
    IF HasField(m, CHECKSUM_TAG)
    THEN IF Len(d) < 7 THEN DecodePanic(pos, m)
         ELSE LET received == ParseU32(GetField(m, CHECKSUM_TAG))
              IN  IF received = -1 THEN DecodeErr(ErrInvalidFormat, pos, m)
                  ELSE IF ~ChecksumMatches(CalculatedChecksum(d), received)
                       THEN DecodeErr(ErrInvalidChecksum, pos, m)
                       ELSE DecodeResult("Ok", 0, m, pos, Len(m.order))
    ELSE DecodeErr(ErrMissingField(CHECKSUM_TAG), pos, m)

\* one header step of decode followed by the rest of decode
HeaderStep(r, d, expected_tag) ==
    IF r.kind = "Ok" THEN ExtractField(d, r.pos, expected_tag, r.msg) ELSE r

\* FixMessage::decode
Decode(d) ==
    LET h0 == [kind |-> "Ok", pos |-> 0, msg |-> NewMessage]
        h1 == HeaderStep(h0, d, BEGIN_STRING_TAG)
        h2 == HeaderStep(h1, d, BODY_LENGTH_TAG)
        h3 == HeaderStep(h2, d, MSG_TYPE_TAG)
    IN  IF h3.kind = "Panic" THEN DecodePanic(h3.pos, h3.msg)
        ELSE IF h3.kind # "Ok" THEN DecodeErr(ErrInvalidFormat, h3.pos, h3.msg)
        ELSE LET s == ScanLoop(d, h3.pos, h3.msg)
             IN  IF s.kind # "Ok" THEN DecodeErr(ErrInvalidFormat, s.pos, s.msg)
                 ELSE VerifyChecksum(d, s.pos, s.msg)

----------------------------------------------------------------------------
(* inputs *)

\* the <<tag, value>> pairs add_field is called with
FieldInputs ==
    { <<8, <<70>>>>,          \* 8=F
      <<8, <<>>>>,            \* 8=
      <<9, <<55>>>>,          \* 9=7, a placeholder
      <<35, <<68>>>>,         \* 35=D
      <<35, <<255>>>>,        \* 35=<0xFF>
      <<11, <<88>>>>,         \* 11=X
      <<11, <<1, 88>>>>,      \* 11=<SOH>X, a value that holds the delimiter
      <<49, <<83>>>>,         \* 49=S
      <<10, <<57>>>> }        \* 10=9, a checksum supplied by the caller

\* the bytes a transmission error puts in place of a byte of the buffer
FlipBytes == {SOH, EQUALS, Zero, 88, 200}

\* the chunks a received buffer is put together from
Pieces ==
    { <<56, 61, 70, 1>>,              \* 8=F|
      <<57, 61, 53, 1>>,              \* 9=5|
      <<51, 53, 61, 68, 1>>,          \* 35=D|
      <<49, 49, 61, 88, 1>>,          \* 11=X|
      <<88, 1>>,                      \* X|    a span without separator
      <<88>>,                         \* X     bytes without delimiter
      <<49, 48, 61, 48, 48, 48, 1>> } \* 10=000|

NoResult == [kind |-> "None", tag |-> 0, buf |-> <<>>]
NoDecode == DecodeResult("None", 0, NewMessage, 0, 0)
NoFlip == [pos |-> -1, old |-> 0, new |-> 0]

\* the message under construction
Msg == [fields |-> fields, order |-> field_order]

----------------------------------------------------------------------------
(* actions *)

Init ==
    /\ fields = <<>>
    /\ field_order = <<>>
    /\ calls = <<>>
    /\ encoded = NoResult
    /\ data = <<>>
    /\ flip = NoFlip
    /\ npieces = 0
    /\ decoded = NoDecode
    /\ pc = "build"

\* msg.add_field(FixField::new(tag, value))
AddField(tag, value) ==
    /\ pc = "build"
    /\ Len(field_order) < MaxFields
    /\ LET m == AddFieldTo(Msg, tag, value)
       IN  /\ fields' = m.fields
           /\ field_order' = m.order
    /\ calls' = Append(calls, <<tag, value>>)
    /\ UNCHANGED <<encoded, data, flip, npieces, decoded, pc>>

\* msg.encode(); a buffer that was encoded is what the peer receives
DoEncode ==
    /\ pc = "build"
    /\ encoded' = Encode(Msg)
    /\ data' = encoded'.buf
    /\ pc' = IF encoded'.kind = "Ok" THEN "ready" ELSE "failed"
    /\ UNCHANGED <<fields, field_order, calls, flip, npieces, decoded>>

\* encoded[i] = b, as in test_invalid_checksum: one byte before the trailing
\* checksum field is replaced by a different byte
Corrupt(i, b) ==
    /\ pc = "ready"
    /\ encoded.kind = "Ok"
    /\ flip = NoFlip
    /\ Len(field_order) <= MaxFlipFields
    /\ i >= 0 /\ i < Len(data) - 7
    /\ b # data[i + 1]
    /\ flip' = [pos |-> i, old |-> data[i + 1], new |-> b]
    /\ data' = [data EXCEPT ![i + 1] = b]
    /\ UNCHANGED <<fields, field_order, calls, encoded, npieces, decoded, pc>>

\* FixMessage::decode(&data)
DoDecode ==
    /\ pc = "ready"
    /\ decoded' = Decode(data)
    /\ pc' = "decoded"
    /\ UNCHANGED <<fields, field_order, calls, encoded, data, flip, npieces>>

Next ==
    \/ \E f \in FieldInputs : AddField(f[1], f[2])
    \/ DoEncode
    \/ \E i \in 0..40, b \in FlipBytes : Corrupt(i, b)
    \/ DoDecode

Spec == Init /\ [][Next]_vars

----------------------------------------------------------------------------
(* decode on received buffers that no encode produced *)

InitDec ==
    /\ fields = <<>>
    /\ field_order = <<>>
    /\ calls = <<>>
    /\ encoded = NoResult
    /\ data = <<>>
    /\ flip = NoFlip
    /\ npieces = 0
    /\ decoded = NoDecode
    /\ pc = "ready"

\* the next chunk of a received buffer
AppendPiece(p) ==
    /\ pc = "ready"
    /\ npieces < MaxPieces
    /\ data' = data \o p
    /\ npieces' = npieces + 1
    /\ UNCHANGED <<fields, field_order, calls, encoded, flip, decoded, pc>>

\* the next chunk is the checksum field a sender computes over the bytes so far
AppendChecksum ==
    /\ pc = "ready"
    /\ npieces < MaxPieces
    /\ data' = data \o ChecksumField(data)
    /\ npieces' = npieces + 1
    /\ UNCHANGED <<fields, field_order, calls, encoded, flip, decoded, pc>>

NextDec ==
    \/ \E p \in Pieces : AppendPiece(p)
    \/ AppendChecksum
    \/ DoDecode

SpecDec == InitDec /\ [][NextDec]_vars

----------------------------------------------------------------------------
(* vocabulary of the properties, read off the history and off the bytes *)

\* the tags add_field was called with
InsertedTags == {calls[k][1] : k \in 1..Len(calls)}

\* the value of the most recent add_field call for tag t
LastInserted(t) ==
    LET k == CHOOSE j \in 1..Len(calls) :
                 /\ calls[j][1] = t
                 /\ \A l \in (j + 1)..Len(calls) : calls[l][1] # t
    IN  calls[k][2]

\* no value handed to add_field holds the delimiter byte
NoDelimiterInValues ==
    \A k \in 1..Len(calls) : \A i \in 1..Len(calls[k][2]) : calls[k][2][i] # SOH

\* the number a string of decimal digits denotes
RECURSIVE DecimalValue(_)
DecimalValue(s) ==
    IF s = <<>> THEN 0 ELSE DecimalValue(SubSeq(s, 1, Len(s) - 1)) * 10 + (s[Len(s)] - 48)

AllDigits(s) == \A i \in 1..Len(s) : s[i] \in 48..57

\* the sum of the first k bytes of b
RECURSIVE SumOfPrefix(_, _)
SumOfPrefix(b, k) == IF k = 0 THEN 0 ELSE SumOfPrefix(b, k - 1) + b[k]

\* the bytes tag=value<SOH> of a field, the tag written out digit by digit
RECURSIVE TagText(_)
TagText(t) == IF t < 10 THEN <<48 + t>> ELSE TagText(t \div 10) \o <<48 + (t % 10)>>

WireField(t, v) == TagText(t) \o <<61>> \o v \o <<1>>

\* the message that a sequence of add_field calls builds
RECURSIVE Replay(_)
Replay(cs) ==
    IF cs = <<>> THEN NewMessage
    ELSE LET c == cs[Len(cs)]
         IN  AddFieldTo(Replay(SubSeq(cs, 1, Len(cs) - 1)), c[1], c[2])

\* the delimiter-terminated spans of a buffer, without their delimiters
RECURSIVE SpansFrom(_, _, _)
SpansFrom(d, i, cur) ==
    IF i > Len(d) THEN <<>>
    ELSE IF d[i] = 1 THEN <<cur>> \o SpansFrom(d, i + 1, <<>>)
    ELSE SpansFrom(d, i + 1, Append(cur, d[i]))

Spans(d) == SpansFrom(d, 1, <<>>)

\* the buffer ends inside a span
Unterminated(d) == d # <<>> /\ d[Len(d)] # 1

SpanHasSeparator(sp) == \E i \in 1..Len(sp) : sp[i] = 61

\* the tag a span carries: the number before its first '=', -1 if there is none
SpanTag(sp) ==
    IF ~SpanHasSeparator(sp) THEN -1
    ELSE LET e == CHOOSE i \in 1..Len(sp) : sp[i] = 61 /\ \A j \in 1..(i - 1) : sp[j] # 61
         IN  ParseU32(SubSeq(sp, 1, e - 1))

\* the first three spans carry the tags 8, 9 and 35
HeaderCarried(d) ==
    LET sp == Spans(d)
    IN  /\ Len(sp) >= 3
        /\ SpanTag(sp[1]) = 8
        /\ SpanTag(sp[2]) = 9
        /\ SpanTag(sp[3]) = 35

EncodeDone == pc # "build"
RoundTripDone == pc = "decoded" /\ encoded.kind = "Ok" /\ flip = NoFlip
FlipDecoded == pc = "decoded" /\ encoded.kind = "Ok" /\ flip # NoFlip
BufferDecoded == pc = "decoded" /\ encoded.kind = "None"

----------------------------------------------------------------------------
(* C7 *)

\* C7: after any sequence of add_field calls get_field(t) is the field of the
\* most recent call with tag t and None for a tag never inserted, field_tags()
\* is the tags of all calls in call order with duplicates kept, len() is the
\* number of distinct inserted tags, is_empty() holds iff no call was made, and
\* the tags of the order sequence are the keys of the lookup map.
C7_InsertionSemantics ==
    /\ \A t \in InsertedTags : HasField(Msg, t) /\ GetField(Msg, t) = LastInserted(t)
    /\ \A t \in {8, 9, 10, 11, 35} \ InsertedTags : ~HasField(Msg, t)
    /\ FieldTags(Msg) = [k \in 1..Len(calls) |-> calls[k][1]]
    /\ MsgLen(Msg) = Cardinality(InsertedTags)
    /\ MsgIsEmpty(Msg) <=> (calls = <<>>)
    /\ {field_order[k] : k \in 1..Len(field_order)} = DOMAIN fields

\* a tag was inserted twice with different values
C7_Witness ==
    /\ Len(field_order) > MsgLen(Msg)
    /\ \E j, k \in 1..Len(calls) :
           j < k /\ calls[j][1] = calls[k][1] /\ calls[j][2] # calls[k][2]

----------------------------------------------------------------------------
(* C2, C3, C5, C6: encode *)

\* the trailing 7 bytes of b are "10=", three decimal digits and the delimiter
EndsWithChecksumField(b) ==
    LET n == Len(b)
    IN  /\ n >= 7
        /\ SubSeq(b, n - 6, n - 4) = <<49, 48, 61>>
        /\ AllDigits(SubSeq(b, n - 3, n - 1))
        /\ b[n] = 1

\* C2: whenever encode succeeds its output ends with the 7 bytes "10=" + three
\* zero-padded decimal digits + 0x01, and the number the digits denote is the
\* sum of all bytes before these 7 bytes, modulo 256.
C2_ChecksumCorrect ==
    encoded.kind = "Ok" =>
        LET b == encoded.buf
            n == Len(b)
        IN  /\ EndsWithChecksumField(b)
            /\ DecimalValue(SubSeq(b, n - 3, n - 1)) = SumOfPrefix(b, n - 7) % 256

\* an output with a byte >= 0x80, a byte sum above 255 and a checksum below 100
C2_Witness ==
    /\ encoded.kind = "Ok"
    /\ \E i \in 1..(Len(encoded.buf) - 7) : encoded.buf[i] >= 128
    /\ SumOfPrefix(encoded.buf, Len(encoded.buf) - 7) > 255
    /\ encoded.buf[Len(encoded.buf) - 3] = 48

\* 0-based position of the delimiter that ends the field after the begin-string field
BodyLengthFieldEnd(b, v8) ==
    LET h == Len(WireField(8, v8))
    IN  (CHOOSE e \in (h + 1)..Len(b) : b[e] = 1 /\ \A j \in (h + 1)..(e - 1) : b[j] # 1) - 1

\* the text between "9=" and the delimiter of the field after the begin-string field
BodyLengthText(b, v8) ==
    SubSeq(b, Len(WireField(8, v8)) + 3, BodyLengthFieldEnd(b, v8))

\* C3: whenever encode succeeds, the field after the begin-string field is
\* "9=<n>" + 0x01 with n a plain decimal numeral without leading zeros that
\* equals the number of bytes strictly between the delimiter ending this field
\* and the first byte of the trailing 7-byte checksum field; a value inserted
\* for tag 9 has no influence on the output.
C3_BodyLengthCorrect ==
    encoded.kind = "Ok" =>
        LET b == encoded.buf
            v8 == LastInserted(8)
            h == Len(WireField(8, v8))
            txt == BodyLengthText(b, v8)
        IN  /\ Len(b) >= h + 4 + 7
            /\ b[h + 1] = 57 /\ b[h + 2] = 61
            /\ txt # <<>> /\ AllDigits(txt)
            /\ (Len(txt) > 1 => txt[1] # 48)
            /\ DecimalValue(txt) = (Len(b) - 7) - (BodyLengthFieldEnd(b, v8) + 1)
            /\ \A v \in {<<>>, <<57, 57>>, <<49>>} : Encode(AddFieldTo(Msg, 9, v)) = encoded

\* a two-digit body length that differs from the placeholder the caller inserted
C3_Witness ==
    /\ encoded.kind = "Ok"
    /\ 9 \in InsertedTags
    /\ Len(BodyLengthText(encoded.buf, LastInserted(8))) = 2
    /\ BodyLengthText(encoded.buf, LastInserted(8)) # LastInserted(9)

\* C5: encode returns MissingField(8) whenever no tag 8 field was inserted,
\* MissingField(35) when tag 8 is present and tag 35 is not, and Ok in every
\* other case, whatever the values are and whether or not tag 9 was inserted.
C5_EncodeOutcome ==
    EncodeDone =>
        /\ (8 \notin InsertedTags) => (encoded.kind = "MissingField" /\ encoded.tag = 8)
        /\ (8 \in InsertedTags /\ 35 \notin InsertedTags)
               => (encoded.kind = "MissingField" /\ encoded.tag = 35)
        /\ (8 \in InsertedTags /\ 35 \in InsertedTags) => encoded.kind = "Ok"

\* encode succeeds on a message without a body-length field
C5_Witness ==
    /\ EncodeDone
    /\ encoded.kind = "Ok"
    /\ 9 \notin InsertedTags
    /\ Len(calls) > 2

\* the calls whose tag is none of the given tags
CallsWithout(cs, tags) == SelectSeq(cs, LAMBDA c : c[1] \notin tags)

\* the fields of the calls cs, one per call, each with the value last inserted for its tag
RECURSIVE WireFields(_)
WireFields(cs) ==
    IF cs = <<>> THEN <<>>
    ELSE WireField(cs[1][1], LastInserted(cs[1][1])) \o WireFields(Tail(cs))

\* C6: the output of a successful encode is the tag 8 field with its stored
\* value, a tag 9 field, the tag 35 field with its stored value, one field per
\* add_field call whose tag is none of 8, 9, 35, 10, in call order and with the
\* value currently stored for the tag, and a tag 10 field; values inserted for
\* tags 9 and 10 do not reach the output.
C6_WireLayout ==
    encoded.kind = "Ok" =>
        LET b == encoded.buf
            head == WireField(8, LastInserted(8))
            body == WireField(35, LastInserted(35))
                        \o WireFields(CallsWithout(calls, {8, 9, 35, 10}))
            nine == SubSeq(b, Len(head) + 1, Len(b) - 7 - Len(body))
        IN  /\ Len(b) >= Len(head) + 4 + Len(body) + 7
            /\ SubSeq(b, 1, Len(head)) = head
            /\ SubSeq(nine, 1, 2) = <<57, 61>>
            /\ AllDigits(SubSeq(nine, 3, Len(nine) - 1))
            /\ nine[Len(nine)] = 1
            /\ SubSeq(b, Len(b) - 7 - Len(body) + 1, Len(b) - 7) = body
            /\ EndsWithChecksumField(b)
            /\ Encode(Replay(CallsWithout(calls, {9, 10}))) = encoded

\* an application tag inserted twice with different values is emitted twice
C6_Witness ==
    /\ encoded.kind = "Ok"
    /\ \E j, k \in 1..Len(calls) :
           j < k /\ calls[j][1] = 11 /\ calls[k][1] = 11 /\ calls[j][2] # calls[k][2]

----------------------------------------------------------------------------
(* C1, C4: decode of an encoded buffer *)

\* the message has the three header tags and no value with a delimiter byte
RoundTripInput == {8, 9, 35} \subseteq InsertedTags /\ NoDelimiterInValues

\* C1 as stated: decode(encode(m)) succeeds and every field retrievable from
\* the decoded message has the value last inserted into m for its tag.
C1_RoundTripEveryField ==
    (RoundTripDone /\ RoundTripInput) =>
        /\ decoded.kind = "Ok"
        /\ \A t \in DOMAIN decoded.msg.fields :
               t \in InsertedTags /\ GetField(decoded.msg, t) = LastInserted(t)

\* C1: for a message with tags 8, 9 and 35 and no 0x01 byte in any value,
\* decode(encode(m)) succeeds, every field retrievable from the decoded message
\* with a tag other than 9 and 10 has the value last inserted into m for its
\* tag, every inserted tag other than 9 and 10 is retrievable, and tags 9 and
\* 10 hold the body length and the checksum that encode computed.
C1_RoundTrip ==
    (RoundTripDone /\ RoundTripInput) =>
        /\ decoded.kind = "Ok"
        /\ \A t \in (DOMAIN decoded.msg.fields) \ {9, 10} :
               t \in InsertedTags /\ GetField(decoded.msg, t) = LastInserted(t)
        /\ InsertedTags \ {9, 10} \subseteq DOMAIN decoded.msg.fields
        /\ {9, 10} \subseteq DOMAIN decoded.msg.fields
        /\ GetField(decoded.msg, 9) = BodyLengthText(encoded.buf, LastInserted(8))
        /\ GetField(decoded.msg, 10)
               = SubSeq(encoded.buf, Len(encoded.buf) - 3, Len(encoded.buf) - 1)

\* a round trip of a message in which a tag was overwritten
C1_Witness ==
    /\ RoundTripDone /\ RoundTripInput
    /\ decoded.kind = "Ok"
    /\ \E j, k \in 1..Len(calls) :
           j < k /\ calls[j][1] = calls[k][1] /\ calls[j][2] # calls[k][2]
    /\ GetField(decoded.msg, 9) # LastInserted(9)

\* position i (0-based) of b lies in a field value: behind the first '=' of its span
IsValueByte(b, i) ==
    /\ b[i + 1] # 1
    /\ \E j \in 1..i : b[j] = 61 /\ \A k \in j..i : b[k] # 1

\* C4 as stated: replacing any byte outside the trailing checksum field of an
\* encoded buffer makes decode fail with InvalidChecksum.
C4_AlwaysInvalidChecksum ==
    FlipDecoded => decoded.kind = "InvalidChecksum"

\* C4: for a buffer encoded from a message without 0x01 bytes in its values,
\* replacing a byte of a field value by a different byte other than 0x01 makes
\* decode fail with exactly InvalidChecksum.
C4_ValueByteFlip ==
    (FlipDecoded /\ NoDelimiterInValues /\ IsValueByte(encoded.buf, flip.pos) /\ flip.new # 1)
        => decoded.kind = "InvalidChecksum"

\* a value byte of the begin-string field was replaced and decode has run
C4_Witness ==
    /\ FlipDecoded /\ NoDelimiterInValues
    /\ IsValueByte(encoded.buf, flip.pos)
    /\ flip.pos = 2 /\ flip.new = 88
    /\ decoded.kind = "InvalidChecksum"

----------------------------------------------------------------------------
(* C8, C9, C10: decode of a received buffer *)

\* the number of bytes of the first n spans of d, delimiters included
RECURSIVE SpanBytes(_, _)
SpanBytes(sp, n) == IF n = 0 THEN 0 ELSE SpanBytes(sp, n - 1) + Len(sp[n]) + 1

\* the number of leading spans of d that carry the header tag of their place
HeaderPrefix(d) ==
    LET sp == Spans(d)
        ok(k) == Len(sp) >= k /\ SpanTag(sp[k]) = <<8, 9, 35>>[k]
    IN  IF ~ok(1) THEN 0 ELSE IF ~ok(2) THEN 1 ELSE IF ~ok(3) THEN 2 ELSE 3

\* C8: decode fails with InvalidFormat unless the first three delimiter-
\* terminated fields carry the tags 8, 9 and 35 in this order; the failure is
\* raised at the first field that does not, before any later field is stored
\* and whatever the checksum is.
C8_HeaderCheck ==
    (BufferDecoded /\ ~HeaderCarried(data)) =>
        /\ decoded.kind = "InvalidFormat"
        /\ decoded.stored = HeaderPrefix(data)
        /\ decoded.pos = SpanBytes(Spans(data), HeaderPrefix(data))

\* the third field has another tag and the buffer ends with a wrong checksum field
C8_Witness ==
    /\ BufferDecoded
    /\ HeaderPrefix(data) = 2
    /\ Len(Spans(data)) >= 4
    /\ SpanTag(Spans(data)[3]) = 11
    /\ SpanTag(Spans(data)[Len(Spans(data))]) = 10
    /\ decoded.kind = "InvalidFormat"

\* some span behind the three header fields has no '=' separator
SpanWithoutSeparator(d) ==
    \E k \in 4..Len(Spans(d)) : ~SpanHasSeparator(Spans(d)[k])

\* C9: with the header in place, decode fails with InvalidFormat if a later
\* span is not terminated by 0x01 before the end of the buffer, and also if a
\* later span holds no '=' separator.
C9_MalformedSpanRejected ==
    (BufferDecoded /\ HeaderCarried(data)) =>
        /\ Unterminated(data) => decoded.kind = "InvalidFormat"
        /\ SpanWithoutSeparator(data) => decoded.kind = "InvalidFormat"

\* every byte of d belongs to a delimiter-terminated span with a separator and a numeric tag
OnlyWellFormedFields(d) ==
    /\ ~Unterminated(d)
    /\ \A k \in 1..Len(Spans(d)) : SpanTag(Spans(d)[k]) >= 0

\* C10: a buffer that starts with fields of tags 8, 9, 35 and consists only of
\* well-formed delimiter-terminated fields none of which has tag 10 is rejected
\* with MissingField(10); MissingField(10) is only returned when the scan has
\* reached the end of the buffer.
C10_MissingChecksum ==
    BufferDecoded =>
        /\ (/\ HeaderCarried(data)
            /\ OnlyWellFormedFields(data)
            /\ \A k \in 1..Len(Spans(data)) : SpanTag(Spans(data)[k]) # 10)
               => (/\ decoded.kind = "MissingField" /\ decoded.tag = 10
                   /\ decoded.stored = Len(Spans(data)))
        /\ decoded.kind = "MissingField" => (decoded.tag = 10 /\ decoded.pos = Len(data))

\* header and one more well-formed field, no checksum field
C10_Witness ==
    /\ BufferDecoded
    /\ HeaderCarried(data) /\ OnlyWellFormedFields(data)
    /\ Len(Spans(data)) >= 4
    /\ decoded.kind = "MissingField" /\ decoded.tag = 10

----------------------------------------------------------------------------
(* decode on received buffers whose header is in place: the fields behind the
   header and the checksum field vary *)

\* the header fields a received buffer starts with
Headers ==
    { <<56, 61, 70, 1, 57, 61, 53, 1, 51, 53, 61, 68, 1>>,    \* 8=F|9=5|35=D|
      <<56, 61, 70, 1, 57, 61, 88, 1, 51, 53, 61, 68, 1>> }   \* 8=F|9=X|35=D|

\* the chunks that follow the header
TailPieces ==
    { <<49, 49, 61, 88, 1>>,           \* 11=X|
      <<88, 1>>,                       \* X|    a span without separator
      <<49, 48, 61, 48, 48, 48, 1>>,   \* 10=000|
      <<49, 48, 61, 88, 1>> }          \* 10=X|

\* a checksum field with a value of k digits for the end of buffer d, whose
\* value is the sum decode will calculate: the bytes of d and of the field
\* itself without the final 7 bytes, modulo 256
FittedChecksumField(d, k) ==
    LET blank == d \o <<Zero + 1, Zero, EQUALS>> \o [i \in 1..k |-> Zero] \o <<SOH>>
        c == SumBytes(Slice(blank, 0, Len(blank) - 7)) % 256
    IN  <<Zero + 1, Zero, EQUALS>> \o PadLeft(Digits(c), k) \o <<SOH>>

InitChk ==
    /\ fields = <<>>
    /\ field_order = <<>>
    /\ calls = <<>>
    /\ encoded = NoResult
    /\ data \in Headers
    /\ flip = NoFlip
    /\ npieces = 0
    /\ decoded = NoDecode
    /\ pc = "ready"

\* the next chunk behind the header
AppendTailPiece(p) ==
    /\ pc = "ready"
    /\ npieces < MaxTailPieces
    /\ data' = data \o p
    /\ npieces' = npieces + 1
    /\ UNCHANGED <<fields, field_order, calls, encoded, flip, decoded, pc>>

\* the next chunk is a checksum field of k digits that agrees with the sum
\* decode calculates when the buffer ends here
AppendFittedChecksum(k) ==
    /\ pc = "ready"
    /\ npieces < MaxTailPieces
    /\ Len(FittedChecksumField(data, k)) = k + 4
    /\ data' = data \o FittedChecksumField(data, k)
    /\ npieces' = npieces + 1
    /\ UNCHANGED <<fields, field_order, calls, encoded, flip, decoded, pc>>

NextChk ==
    \/ \E p \in TailPieces : AppendTailPiece(p)
    \/ \E k \in 1..4 : AppendFittedChecksum(k)
    \/ DoDecode

SpecChk == InitChk /\ [][NextChk]_vars

----------------------------------------------------------------------------
(* C11 *)

\* the bytes of a span behind its first '='
SpanValue(sp) ==
    LET e == CHOOSE i \in 1..Len(sp) : sp[i] = 61 /\ \A j \in 1..(i - 1) : sp[j] # 61
    IN  SubSeq(sp, e + 1, Len(sp))

\* the buffer gets through the header check and the scan loop of decode
ScanPasses(d) ==
    /\ HeaderCarried(d)
    /\ ~Unterminated(d)
    /\ \A k \in 4..Len(Spans(d)) :
           SpanHasSeparator(Spans(d)[k]) => SpanTag(Spans(d)[k]) >= 0

HasChecksumSpan(d) == \E k \in 1..Len(Spans(d)) : SpanTag(Spans(d)[k]) = 10

\* the value of the last span of d that carries tag 10
LastChecksumValue(d) ==
    LET sp == Spans(d)
        k == CHOOSE j \in 1..Len(sp) :
                 SpanTag(sp[j]) = 10 /\ \A l \in (j + 1)..Len(sp) : SpanTag(sp[l]) # 10
    IN  SpanValue(sp[k])

\* C11: for a buffer that passes the scan and holds a tag 10 field, decode
\* returns Ok exactly when the value of the last tag 10 field parses as an
\* unsigned integer equal to the sum modulo 256 of all bytes except the final
\* 7, InvalidFormat when it does not parse and InvalidChecksum when the numbers
\* differ, wherever the tag 10 field lies and however many digits it has.
C11_ChecksumVerification ==
    (BufferDecoded /\ ScanPasses(data) /\ HasChecksumSpan(data)) =>
        LET received == ParseU32(LastChecksumValue(data))
            calculated == SumOfPrefix(data, Len(data) - 7) % 256
        IN  /\ decoded.kind = "Ok" <=> (received >= 0 /\ received = calculated)
            /\ received = -1 => decoded.kind = "InvalidFormat"
            /\ (received >= 0 /\ received # calculated) => decoded.kind = "InvalidChecksum"

\* a buffer is accepted whose checksum field is not the 7-byte field of encode
C11_Witness ==
    /\ BufferDecoded /\ ScanPasses(data) /\ HasChecksumSpan(data)
    /\ decoded.kind = "Ok"
    /\ Len(LastChecksumValue(data)) # 3

----------------------------------------------------------------------------
(* C14 *)

\* the last span of d is the checksum field "10=" + three digits, and the
\* digits denote the sum of all bytes before the field, modulo 256
TrailingChecksumMatches(d) ==
    LET sp == Spans(d)
        last == sp[Len(sp)]
    IN  /\ ~Unterminated(d)
        /\ Len(sp) >= 1
        /\ Len(last) = 6
        /\ SubSeq(last, 1, 3) = <<49, 48, 61>>
        /\ AllDigits(SubSeq(last, 4, 6))
        /\ DecimalValue(SubSeq(last, 4, 6)) = SumOfPrefix(d, Len(d) - 7) % 256

\* the number of bytes between the body-length field and the trailing checksum field
ActualBodyLength(d) == (Len(d) - 7) - SpanBytes(Spans(d), 2)

\* C14: decode does not compare the declared body length with anything: a
\* buffer that passes the scan and whose trailing checksum matches is accepted
\* whatever the value of its tag 9 field is, and the decoded message returns
\* that value unchanged from get_field(9).
C14_BodyLengthNotChecked ==
    (/\ BufferDecoded
     /\ ScanPasses(data)
     /\ TrailingChecksumMatches(data)
     /\ \A k \in 3..Len(Spans(data)) : SpanTag(Spans(data)[k]) # 9)
        => /\ decoded.kind = "Ok"
           /\ HasField(decoded.msg, 9)
           /\ GetField(decoded.msg, 9) = SpanValue(Spans(data)[2])

\* an accepted buffer whose tag 9 field is not a number
C14_Witness ==
    /\ BufferDecoded /\ ScanPasses(data) /\ TrailingChecksumMatches(data)
    /\ decoded.kind = "Ok"
    /\ ~AllDigits(GetField(decoded.msg, 9))
    /\ Len(Spans(data)) >= 5

----------------------------------------------------------------------------
(* C12, C15: decode of an encoded buffer, continued *)

\* the tags of a sequence of calls
TagsOf(cs) == [k \in 1..Len(cs) |-> cs[k][1]]

\* C12: for a message on which encode succeeds and whose values hold no 0x01
\* byte, field_tags() of decode(encode(m)) is 8, 9, 35, then the tags of the
\* add_field calls whose tag is none of 8, 9, 35, 10 in call order, then 10.
C12_OrderSurvives ==
    (RoundTripDone /\ NoDelimiterInValues) =>
        /\ decoded.kind = "Ok"
        /\ FieldTags(decoded.msg)
               = <<8, 9, 35>> \o TagsOf(CallsWithout(calls, {8, 9, 35, 10})) \o <<10>>

\* two application tags were inserted one after the other, behind a header
\* field that was inserted later than the first of them
C12_Witness ==
    /\ RoundTripDone /\ NoDelimiterInValues
    /\ decoded.kind = "Ok"
    /\ \E j, k \in 1..Len(calls) : j < k /\ calls[j][1] = 49 /\ calls[k][1] = 11
    /\ calls[1][1] \notin {8, 35}

\* C15: for a buffer encoded from a message whose values hold no 0x01 byte,
\* replacing any byte before the trailing checksum field by a different byte
\* makes decode return InvalidFormat, InvalidChecksum or MissingField(10),
\* never Ok.
C15_NoCorruptionAccepted ==
    (FlipDecoded /\ NoDelimiterInValues) =>
        \/ decoded.kind = "InvalidFormat"
        \/ decoded.kind = "InvalidChecksum"
        \/ decoded.kind = "MissingField" /\ decoded.tag = 10

\* the '=' of a field behind the header was replaced, the scan skipped the span
\* and the checksum comparison rejected the buffer
C15_Witness ==
    /\ FlipDecoded /\ NoDelimiterInValues
    /\ flip.old = 61
    /\ flip.new # 1
    /\ ~IsValueByte(encoded.buf, flip.pos)
    /\ flip.pos > SpanBytes(Spans(encoded.buf), 3)
    /\ decoded.stored = Len(Spans(encoded.buf)) - 1
    /\ decoded.kind = "InvalidChecksum"

----------------------------------------------------------------------------
(* C13 *)

\* C13: for every buffer, the empty one, one of less than 7 bytes and one that
\* ends inside a field included, decode returns Ok or one of InvalidFormat,
\* InvalidChecksum, MissingField(10) and never faults on a slice: the scan
\* position stays within the buffer, the checksum slice is only taken of a
\* buffer of at least 7 bytes, and a failure carries no message.
C13_DecodeTotal ==
    BufferDecoded =>
        /\ \/ decoded.kind \in {"Ok", "InvalidFormat", "InvalidChecksum"}
           \/ decoded.kind = "MissingField" /\ decoded.tag = 10
        /\ decoded.pos >= 0 /\ decoded.pos <= Len(data)
        /\ decoded.kind \in {"Ok", "InvalidChecksum"} => Len(data) >= 7
        /\ decoded.kind # "Ok" => decoded.msg = NewMessage
        /\ decoded.kind = "Ok" => Len(FieldTags(decoded.msg)) = decoded.stored

\* a buffer of less than 7 bytes that ends inside a field was decoded
C13_Witness ==
    /\ BufferDecoded
    /\ Len(data) < 7
    /\ Unterminated(data)
    /\ Len(Spans(data)) >= 1
    /\ decoded.kind = "InvalidFormat"

====
